---- MODULE Spec2Model ----
(***************************************************************************)
(* A state-machine model of cbdep/scripts/cbdep.py: main() and the four    *)
(* command handlers of class Cbdep (do_cache, do_install, do_platform,     *)
(* do_list).  One process invocation is one behaviour.  The invocation's   *)
(* inputs (command line, inherited environment, host platform, bundle      *)
(* mode) are chosen in Init; the outcomes of the collaborators (Cache,      *)
(* Installer, get_platforms, the catalog file) are chosen when the code     *)
(* calls them.  An exception raised by any call is not caught anywhere in   *)
(* cbdep.py, so it unwinds main() and the interpreter exits with status 1.  *)
(***************************************************************************)
EXTENDS Integers, Sequences, FiniteSets

VARIABLES
    pc,               \* position of main() / of the running handler
    argv,             \* the command line of this invocation (immutable)
    environ0,         \* the inherited environment (immutable)
    environ,          \* os.environ
    host_platform,    \* what platform introspection returns on this host
    frozen,           \* sys.frozen: running as a bundled executable
    default_platform, \* default= of the --platform argument
    args,             \* the argparse Namespace
    ch_level,         \* level of the stream handler ch
    cbdep,            \* the Cbdep object (its cache), None before line 242
    ran,              \* handlers entered so far, in order
    calls,            \* calls made to collaborators, in order, with outcome
    stdout,           \* lines printed
    installdir,       \* do_install's local installdir
    installer,        \* do_install's local installer
    fetches,          \* cache fetches made inside Installer.install, in order
    config,           \* do_list's local config
    pkgs,             \* do_list's local pkgs
    outfile,          \* content of the file at the output path
    status            \* process exit status, None while running

vars == <<pc, argv, environ0, environ, host_platform, frozen, default_platform,
          args, ch_level, cbdep, ran, calls, stdout, installdir, installer,
          fetches, config, pkgs, outfile, status>>

None == "None"

\* ------------------------------------------------------------------ bounds
\* most fetches one Installer.install run makes
MaxFetch == 2
\* longest classic-cbdeps package list of a catalog
MaxLegacy == 2

\* ------------------------------------------------------------- input domains
\* Package names are strings over a two-letter alphabet, kept as sequences of
\* character codes so that Python's string order can be computed.
Names == {<<1>>, <<1, 2>>, <<2>>}
Platforms == {"centos7", "windows"}
Artifacts == {"art1", "art2"}
HOME == "/home/u"
MEIPASS == "/tmp/_MEI"
Commands == {"cache", "install", "platform", "list"}

\* A path is kept as the list of its segments between "/" (str.split("/")):
\* "/opt/x/" is <<"", "opt", "x", "">>, "rel/../x" is <<"rel", "..", "x">>,
\* the empty string is <<"">>.  NoDir stands for --dir not given (None).
NoDir == <<>>
\* os.getcwd(), as the names below the root
CWD == <<"work">>
\* the symbolic links of the file system: the names below the root of a link,
\* and of the directory it points to
Symlinks == [l \in {<<"work", "lnk">>} |-> <<"opt", "x">>]
\* the --dir values tried
Dirs ==
    {NoDir, <<"", "opt", "x", "">>, <<"", "opt", "y">>, <<"rel", "..", ".", "x">>,
     <<"lnk", "sub">>, <<"">>}

BoolStr(b) == IF b THEN "True" ELSE "False"

\* Flags that a subcommand's parser does not define are absent from the
\* Namespace; in the uniform record they stay at the value shown here.
NoArgs ==
    [cmd |-> None, platform |-> None, debug |-> FALSE, url |-> None,
     report |-> FALSE, recache |-> FALSE, output |-> None, package |-> None,
     version |-> None, x32 |-> FALSE, config_file |-> None, dir |-> NoDir,
     base_url |-> None, cache_only |-> FALSE, help |-> "no",
     unrecognized |-> FALSE, early |-> FALSE]

GlobalArgv ==
    {[NoArgs EXCEPT !.platform = p, !.debug = d] :
        p \in {None, "windows"}, d \in BOOLEAN}

CacheArgv ==
    {[g EXCEPT !.cmd = "cache", !.url = "http://h/f", !.report = r,
               !.recache = rc, !.output = o] :
        g \in GlobalArgv, r \in BOOLEAN, rc \in BOOLEAN, o \in {None, "out.bin"}}

InstallArgv ==
    {[g EXCEPT !.cmd = "install", !.package = p, !.version = "1.0",
               !.config_file = c, !.dir = d, !.cache_only = n, !.report = r,
               !.output = o, !.recache = rc] :
        g \in GlobalArgv, p \in {"known", "unknown"}, c \in {None, "my.config"},
        d \in Dirs, n \in BOOLEAN, r \in BOOLEAN,
        o \in {None, "out.bin"}, rc \in BOOLEAN}

PlatformArgv == {[g EXCEPT !.cmd = "platform"] : g \in GlobalArgv}

ListArgv ==
    {[g EXCEPT !.cmd = "list", !.config_file = c] :
        g \in GlobalArgv, c \in {None, "my.config"}}

\* command lines with every positional argument present, no -h/--help and
\* nothing the parsers do not know
PlainArgv == GlobalArgv \cup CacheArgv \cup InstallArgv \cup PlatformArgv \cup ListArgv

\* the plain command lines whose install options are all left out
BriefArgv ==
    {a \in PlainArgv :
        a.cmd = "install" =>
           /\ a.dir = NoDir /\ a.config_file = None /\ a.output = None
           /\ ~a.cache_only /\ ~a.report /\ ~a.recache}

\* -h/--help before the subcommand ("global") or after it ("sub"); after the
\* subcommand the positional arguments may be missing as well
HelpArgv ==
    {[a EXCEPT !.help = "global"] : a \in BriefArgv}
    \cup {[a EXCEPT !.help = "sub"] : a \in {b \in BriefArgv : b.cmd # None}}
    \cup {[a EXCEPT !.help = "sub", !.url = None, !.package = None,
                    !.version = None] :
              a \in {b \in BriefArgv : b.cmd \in {"cache", "install"}}}

\* command lines with an option no parser knows (--nope, or -p after the
\* subcommand), with a subcommand that does not exist, or with a positional
\* argument missing; and ("early") command lines, with or without -h, holding
\* what the parser rejects before it acts on any -h: an option whose value is
\* missing in front of the -h (cbdep -p -h, cache -o -h) or an ambiguous
\* abbreviation beside it (cache --re -h, cache -h --re)
FaultyArgv ==
    {[a EXCEPT !.unrecognized = TRUE] : a \in BriefArgv}
    \cup {[a EXCEPT !.unrecognized = TRUE] : a \in HelpArgv}
    \cup {[a EXCEPT !.early = TRUE] : a \in BriefArgv \cup HelpArgv}
    \cup {[a EXCEPT !.cmd = "bogus"] : a \in GlobalArgv}
    \cup {[a EXCEPT !.cmd = "bogus", !.help = "sub"] : a \in GlobalArgv}
    \cup {[a EXCEPT !.version = None] : a \in {b \in BriefArgv : b.cmd = "install"}}
    \cup {[a EXCEPT !.url = None] : a \in {b \in BriefArgv : b.cmd = "cache"}}

Argv == PlainArgv \cup HelpArgv \cup FaultyArgv

\* ------------------------------------------------------------ pure functions
\* os.environ.pop(key, None)
environ_pop(env, key) == env \ {key}

\* How parser.parse_args() ends on a command line.  An option without its
\* value and an ambiguous abbreviation are rejected before any help action
\* runs; the help action exits as soon as -h/--help is met; an unknown
\* subcommand is rejected when it is met; missing positionals and
\* unrecognized options are rejected after the whole command line was read.
parse_result(av) ==
    IF av.early THEN "error"
    ELSE IF av.help = "global" THEN "help"
    ELSE IF av.cmd \notin Commands \cup {None} THEN "error"
    ELSE IF av.help = "sub" THEN "help"
    ELSE IF \/ av.unrecognized
            \/ av.cmd = "cache" /\ av.url = None
            \/ av.cmd = "install" /\ (av.package = None \/ av.version = None)
         THEN "error"
    ELSE "ok"

\* print_help() of the top-level parser, or of the parser of a subcommand
HelpText(cmd) == IF cmd = None THEN "usage" ELSE "usage " \o cmd

\* parser.parse_args(): --platform falls back to its default; func is set by
\* the chosen subparser's set_defaults and is missing without a subcommand.
parse_args_no_override(av, dflt) ==
    [func |-> av.cmd, platform |-> dflt, debug |-> av.debug, url |-> av.url,
     report |-> av.report, recache |-> av.recache, output |-> av.output,
     package |-> av.package, version |-> av.version, x32 |-> av.x32,
     config_file |-> av.config_file, dir |-> av.dir, base_url |-> av.base_url,
     cache_only |-> av.cache_only, help |-> av.help,
     unrecognized |-> av.unrecognized, early |-> av.early]

parse_args(av, dflt) ==
    [func |-> av.cmd,
     platform |-> IF av.platform = None THEN dflt ELSE av.platform,
     debug |-> av.debug, url |-> av.url,
     report |-> av.report, recache |-> av.recache, output |-> av.output,
     package |-> av.package, version |-> av.version, x32 |-> av.x32,
     config_file |-> av.config_file, dir |-> av.dir, base_url |-> av.base_url,
     cache_only |-> av.cache_only, help |-> av.help,
     unrecognized |-> av.unrecognized, early |-> av.early]

\* Cbdep.configpath
configpath(a, isfrozen) ==
    IF a.config_file = None
    THEN (IF isfrozen THEN MEIPASS ELSE HOME) \o "/cbdep.config"
    ELSE a.config_file

\* A path is absolute when it starts with "/".
IsAbsolute(segs) == Len(segs) >= 2 /\ segs[1] = ""

\* Path.resolve(): the segments are walked from the root (or the cwd, for a
\* relative path); "" and "." are dropped, ".." steps to the parent (the
\* root being its own parent), and a name that is a symbolic link is
\* replaced by what it points to.
RECURSIVE Walk(_, _)
Walk(cur, rest) ==
    IF rest = <<>> THEN cur
    ELSE LET seg == Head(rest)
             nxt == cur \o <<seg>>
         IN  IF seg \in {"", "."} THEN Walk(cur, Tail(rest))
             ELSE IF seg = ".."
                  THEN Walk(IF cur = <<>> THEN cur
                            ELSE SubSeq(cur, 1, Len(cur) - 1), Tail(rest))
             ELSE Walk(IF nxt \in DOMAIN Symlinks THEN Symlinks[nxt] ELSE nxt,
                       Tail(rest))

\* str() of an absolute path given by its names below the root
RECURSIVE PathStr(_)
PathStr(names) ==
    IF names = <<>> THEN "/"
    ELSE IF Len(names) = 1 THEN "/" \o names[1]
    ELSE PathStr(SubSeq(names, 1, Len(names) - 1)) \o "/" \o names[Len(names)]

resolve(segs) == Walk(IF IsAbsolute(segs) THEN <<>> ELSE CWD, segs)

\* do_install lines 85-88: default "install", then str(Path(...).resolve())
resolve_installdir(a) ==
    LET d == IF a.dir = NoDir THEN <<"install">> ELSE a.dir
    IN  PathStr(resolve(d))

\* Character and string of a package name, for printing.
Chr(c) == IF c = 1 THEN "a" ELSE "b"

RECURSIVE NameStr(_)
NameStr(n) == IF n = <<>> THEN "" ELSE Chr(Head(n)) \o NameStr(Tail(n))

\* Python's < on str: by code point, a proper prefix being smaller.
RECURSIVE StrLess(_, _)
StrLess(x, y) ==
    IF y = <<>> THEN FALSE
    ELSE IF x = <<>> THEN TRUE
    ELSE IF Head(x) # Head(y) THEN Head(x) < Head(y)
    ELSE StrLess(Tail(x), Tail(y))

\* Position of v in the ascending list s: after every element not above it.
RECURSIVE Insert(_, _)
Insert(v, s) ==
    IF s = <<>> THEN <<v>>
    ELSE IF StrLess(v, Head(s)) THEN <<v>> \o s
    ELSE <<Head(s)>> \o Insert(v, Tail(s))

\* sorted(): every element of the list is kept, in ascending order
RECURSIVE sorted(_)
sorted(s) == IF s = <<>> THEN <<>> ELSE Insert(Head(s), sorted(Tail(s)))

Range(s) == {s[i] : i \in 1..Len(s)}

SeqsUpTo(S, n) == UNION {[1..k -> S] : k \in 0..n}

\* A catalog as yaml.load returns it: the keys of the packages mapping in
\* file order (a dict holds each key once) and the classic-cbdeps list.
Catalogs ==
    {[packages |-> k, classic |-> c] :
        k \in {q \in SeqsUpTo(Names, Cardinality(Names)) :
                  Cardinality(Range(q)) = Len(q)},
        c \in SeqsUpTo(Names, MaxLegacy)}

NoConfig == [packages |-> <<>>, classic |-> <<>>]

\* do_list lines 115-116: list(config['packages'].keys()) + config['classic-cbdeps']['packages']
list_pkgs(cfg) == cfg.packages \o cfg.classic

Header == "Available packages (not all may be available on all platforms):"

\* do_list lines 117-122: header, one indented line per element of sorted(pkgs), blank line
list_lines(ps) ==
    <<Header>> \o [i \in 1..Len(ps) |-> "  " \o NameStr(sorted(ps)[i])] \o <<"">>

\* The Installer object: what it was bound to, its two flags, the artifact it
\* fetched last, and whether its unpack/setup steps ran.
NoInstaller ==
    [config |-> None, cache |-> None, platform |-> None, cache_only |-> FALSE,
     recache |-> FALSE, installer_file |-> None, unpacked |-> FALSE]

\* Installer.fromYaml(yamlfile, cache, platform)
Installer_fromYaml(yamlfile, cache, platform) ==
    [NoInstaller EXCEPT !.config = yamlfile, !.cache = cache, !.platform = platform]

\* One fetch made by the Installer, with the flags it held when it fetched.
Fetch(inst, art, ok) ==
    [cache_only |-> inst.cache_only, recache |-> inst.recache, file |-> art,
     ok |-> ok]

\* A call to a collaborator: its name, its arguments as text, its outcome.
Call(op, a, ok) == [op |-> op, a |-> a, ok |-> ok]

\* sys.exit(n)
Exit(n) == pc' = "exit" /\ status' = n

\* An uncaught exception: the interpreter exits with status 1.
Raise == Exit(1)

\* --------------------------------------------------------------------- Init
Init ==
    /\ pc = "main"
    /\ argv \in Argv
    /\ environ0 \in {{"HOME"}, {"HOME", "LD_LIBRARY_PATH"}}
    /\ environ = environ0
    /\ host_platform \in Platforms
    /\ frozen \in BOOLEAN
    /\ default_platform = None
    /\ args = NoArgs
    /\ ch_level = "NOTSET"
    /\ cbdep = None
    /\ ran = <<>>
    /\ calls = <<>>
    /\ stdout = <<>>
    /\ installdir = None
    /\ installer = NoInstaller
    /\ fetches = <<>>
    /\ config = NoConfig
    /\ pkgs = <<>>
    /\ outfile = None
    /\ status = None

\* --------------------------------------------------------------------- main
\* line 135 without the pop
main_keep_env ==
    /\ pc = "main"
    /\ pc' = "build_parser"
    /\ UNCHANGED <<argv, environ0, environ, host_platform, frozen,
                   default_platform, args, ch_level, cbdep, ran, calls, stdout,
                   installdir, installer, fetches, config, pkgs, outfile, status>>

\* line 135: os.environ.pop("LD_LIBRARY_PATH", None)
main_pop_env ==
    /\ pc = "main"
    /\ environ' = environ_pop(environ, "LD_LIBRARY_PATH")
    /\ pc' = "build_parser"
    /\ UNCHANGED <<argv, environ0, host_platform, frozen, default_platform,
                   args, ch_level, cbdep, ran, calls, stdout, installdir,
                   installer, fetches, config, pkgs, outfile, status>>

\* lines 137-226 with the detection skipped when an override is on the
\* command line
main_build_parser_lazy ==
    /\ pc = "build_parser"
    /\ IF argv.platform = None
       THEN /\ calls' = Append(calls, Call("get_platforms",
                                   <<BoolStr("LD_LIBRARY_PATH" \in environ)>>, TRUE))
            /\ default_platform' = host_platform
       ELSE UNCHANGED <<calls, default_platform>>
    /\ pc' = "parse_args"
    /\ UNCHANGED status
    /\ UNCHANGED <<argv, environ0, environ, host_platform, frozen, args,
                   ch_level, cbdep, ran, stdout, installdir, installer, fetches, config, pkgs,
                   outfile>>

\* lines 137-226: the parser is built; the default of --platform is the
\* value of get_platforms(), evaluated here whatever the command line holds.
main_build_parser ==
    /\ pc = "build_parser"
    /\ \E ok \in BOOLEAN :
         /\ calls' = Append(calls, Call("get_platforms",
                                <<BoolStr("LD_LIBRARY_PATH" \in environ)>>, ok))
         /\ IF ok
            THEN /\ default_platform' = host_platform
                 /\ pc' = "parse_args"
                 /\ UNCHANGED status
            ELSE /\ Raise
                 /\ UNCHANGED default_platform
    /\ UNCHANGED <<argv, environ0, environ, host_platform, frozen, args,
                   ch_level, cbdep, ran, stdout, installdir, installer, fetches, config, pkgs,
                   outfile>>

\* line 228: parser.parse_args() returns the Namespace, or prints the help
\* text and exits with status 0 on -h/--help, or exits with status 2 (usage
\* and error on stderr) on a command line it rejects.
main_parse_args ==
    /\ pc = "parse_args"
    /\ CASE parse_result(argv) = "help" ->
              /\ stdout' = Append(stdout,
                      HelpText(IF argv.help = "global" THEN None ELSE argv.cmd))
              /\ Exit(0)
              /\ UNCHANGED args
         [] parse_result(argv) = "error" ->
              /\ Exit(2)
              /\ UNCHANGED <<args, stdout>>
         [] parse_result(argv) = "ok" ->
              /\ args' = parse_args(argv, default_platform)
              /\ pc' = "set_debug"
              /\ UNCHANGED <<stdout, status>>
    /\ UNCHANGED <<argv, environ0, environ, host_platform, frozen,
                   default_platform, ch_level, cbdep, ran, calls,
                   installdir, installer, fetches, config, pkgs, outfile>>

\* lines 234-235
main_set_debug ==
    /\ pc = "set_debug"
    /\ ch_level' = IF args.debug THEN "DEBUG" ELSE ch_level
    /\ pc' = "check_func"
    /\ UNCHANGED <<argv, environ0, environ, host_platform, frozen,
                   default_platform, args, cbdep, ran, calls, stdout,
                   installdir, installer, fetches, config, pkgs, outfile, status>>

\* lines 238-240 with the exit forgotten after the help text
main_check_func_no_exit ==
    /\ pc = "check_func"
    /\ stdout' = IF args.func = None THEN Append(stdout, HelpText(None)) ELSE stdout
    /\ pc' = "new_cbdep"
    /\ UNCHANGED <<argv, environ0, environ, host_platform, frozen,
                   default_platform, args, ch_level, cbdep, ran, calls,
                   installdir, installer, fetches, config, pkgs, outfile, status>>

\* lines 238-240: "func" not in args -> print_help(), sys.exit(1)
main_check_func ==
    /\ pc = "check_func"
    /\ IF args.func = None
       THEN /\ stdout' = Append(stdout, HelpText(None))
            /\ Exit(1)
       ELSE /\ pc' = "new_cbdep"
            /\ UNCHANGED <<stdout, status>>
    /\ UNCHANGED <<argv, environ0, environ, host_platform, frozen,
                   default_platform, args, ch_level, cbdep, ran, calls,
                   installdir, installer, fetches, config, pkgs, outfile>>

\* line 242 and Cbdep.__init__ (lines 34-36)
main_new_cbdep ==
    /\ pc = "new_cbdep"
    /\ \E ok \in BOOLEAN :
         /\ calls' = Append(calls, Call("Cache", <<HOME \o "/.cbdepcache">>, ok))
         /\ IF ok
            THEN /\ cbdep' = HOME \o "/.cbdepcache"
                 /\ pc' = "dispatch"
                 /\ UNCHANGED status
            ELSE /\ Raise
                 /\ UNCHANGED cbdep
    /\ UNCHANGED <<argv, environ0, environ, host_platform, frozen,
                   default_platform, args, ch_level, ran, stdout, installdir,
                   installer, fetches, config, pkgs, outfile>>

\* line 243: args.func(cbdep, args) enters the handler set by set_defaults;
\* reading args.func when it is missing raises AttributeError.
HandlerEntry(f) ==
    CASE f = "cache" -> "do_cache_get"
      [] f = "install" -> "do_install_dir"
      [] f = "platform" -> "do_platform"
      [] f = "list" -> "do_list_load"

main_dispatch ==
    /\ pc = "dispatch"
    /\ IF args.func = None
       THEN Raise /\ UNCHANGED ran
       ELSE /\ ran' = Append(ran, args.func)
            /\ pc' = HandlerEntry(args.func)
            /\ UNCHANGED status
    /\ UNCHANGED <<argv, environ0, environ, host_platform, frozen,
                   default_platform, args, ch_level, cbdep, calls, stdout,
                   installdir, installer, fetches, config, pkgs, outfile>>

\* line 243 returns; main() returns; the interpreter exits with status 0
main_return ==
    /\ pc = "return"
    /\ pc' = "exit"
    /\ status' = 0
    /\ UNCHANGED <<argv, environ0, environ, host_platform, frozen,
                   default_platform, args, ch_level, cbdep, ran, calls, stdout,
                   installdir, installer, fetches, config, pkgs, outfile>>

\* ----------------------------------------------------------------- do_cache
\* line 43 inside a try/except that swallows the error
do_cache_get_swallow ==
    /\ pc = "do_cache_get"
    /\ \E ok \in BOOLEAN :
         calls' = Append(calls, Call("Cache.get",
                             <<args.url, BoolStr(args.recache)>>, ok))
    /\ pc' = "do_cache_report"
    /\ UNCHANGED <<argv, environ0, environ, host_platform, frozen,
                   default_platform, args, ch_level, cbdep, ran, stdout,
                   installdir, installer, fetches, config, pkgs, outfile, status>>

\* line 43: self.cache.get(args.url, args.recache)
do_cache_get ==
    /\ pc = "do_cache_get"
    /\ \E ok \in BOOLEAN :
         /\ calls' = Append(calls, Call("Cache.get",
                                <<args.url, BoolStr(args.recache)>>, ok))
         /\ IF ok
            THEN pc' = "do_cache_report" /\ UNCHANGED status
            ELSE Raise
    /\ UNCHANGED <<argv, environ0, environ, host_platform, frozen,
                   default_platform, args, ch_level, cbdep, ran, stdout,
                   installdir, installer, fetches, config, pkgs, outfile>>

\* lines 46-47 made to depend on the output option
do_cache_report_unless_output ==
    /\ pc = "do_cache_report"
    /\ IF args.report /\ args.output = None
       THEN /\ calls' = Append(calls, Call("Cache.report", <<args.url>>, TRUE))
            /\ stdout' = Append(stdout, cbdep \o "/" \o args.url)
       ELSE UNCHANGED <<calls, stdout>>
    /\ pc' = "do_cache_save"
    /\ UNCHANGED <<argv, environ0, environ, host_platform, frozen,
                   default_platform, args, ch_level, cbdep, ran, installdir,
                   installer, fetches, config, pkgs, outfile, status>>

\* lines 46-47: if args.report: self.cache.report(args.url)
do_cache_report ==
    /\ pc = "do_cache_report"
    /\ IF args.report
       THEN \E ok \in BOOLEAN :
              /\ calls' = Append(calls, Call("Cache.report", <<args.url>>, ok))
              /\ IF ok
                 THEN /\ stdout' = Append(stdout, cbdep \o "/" \o args.url)
                      /\ pc' = "do_cache_save"
                      /\ UNCHANGED status
                 ELSE /\ Raise
                      /\ UNCHANGED stdout
       ELSE /\ pc' = "do_cache_save"
            /\ UNCHANGED <<calls, stdout, status>>
    /\ UNCHANGED <<argv, environ0, environ, host_platform, frozen,
                   default_platform, args, ch_level, cbdep, ran, installdir,
                   installer, fetches, config, pkgs, outfile>>

\* lines 50-51: if args.output is not None: self.cache.save(args.url, args.output)
do_cache_save ==
    /\ pc = "do_cache_save"
    /\ IF args.output # None
       THEN \E ok \in BOOLEAN :
              /\ calls' = Append(calls, Call("Cache.save",
                                     <<args.url, args.output>>, ok))
              /\ IF ok
                 THEN /\ outfile' = args.url
                      /\ pc' = "return"
                      /\ UNCHANGED status
                 ELSE /\ Raise
                      /\ UNCHANGED outfile
       ELSE /\ pc' = "return"
            /\ UNCHANGED <<calls, outfile, status>>
    /\ UNCHANGED <<argv, environ0, environ, host_platform, frozen,
                   default_platform, args, ch_level, cbdep, ran, stdout,
                   installdir, installer, fetches, config, pkgs>>

\* -------------------------------------------------------------- do_platform
\* line 60 printing the value main() already detected
do_platform_reuse ==
    /\ pc = "do_platform"
    /\ stdout' = Append(stdout, default_platform)
    /\ pc' = "return"
    /\ UNCHANGED <<argv, environ0, environ, host_platform, frozen,
                   default_platform, args, ch_level, cbdep, ran, calls,
                   installdir, installer, fetches, config, pkgs, outfile,
                   status>>

\* lines 59-60: print(get_platforms())
do_platform ==
    /\ pc = "do_platform"
    /\ \E ok \in BOOLEAN :
         /\ calls' = Append(calls, Call("get_platforms",
                                <<BoolStr("LD_LIBRARY_PATH" \in environ)>>, ok))
         /\ IF ok
            THEN /\ stdout' = Append(stdout, host_platform)
                 /\ pc' = "return"
                 /\ UNCHANGED status
            ELSE /\ Raise
                 /\ UNCHANGED stdout
    /\ UNCHANGED <<argv, environ0, environ, host_platform, frozen,
                   default_platform, args, ch_level, cbdep, ran, installdir,
                   installer, fetches, config, pkgs, outfile>>

\* ------------------------------------------------------------------ do_list
\* lines 113-116: open and parse the catalog, build pkgs.  A missing or
\* unreadable file, a parse error or a missing key raises.
do_list_load ==
    /\ pc = "do_list_load"
    /\ \E ok \in BOOLEAN :
         /\ calls' = Append(calls, Call("yaml.load",
                                <<configpath(args, frozen)>>, ok))
         /\ IF ok
            THEN /\ \E cfg \in Catalogs :
                      /\ config' = cfg
                      /\ pkgs' = list_pkgs(cfg)
                 /\ pc' = "do_list_print"
                 /\ UNCHANGED status
            ELSE /\ Raise
                 /\ UNCHANGED <<config, pkgs>>
    /\ UNCHANGED <<argv, environ0, environ, host_platform, frozen,
                   default_platform, args, ch_level, cbdep, ran, stdout,
                   installdir, installer, fetches, outfile>>

\* lines 117-122
do_list_print ==
    /\ pc = "do_list_print"
    /\ stdout' = stdout \o list_lines(pkgs)
    /\ pc' = "return"
    /\ UNCHANGED <<argv, environ0, environ, host_platform, frozen,
                   default_platform, args, ch_level, cbdep, ran, calls,
                   installdir, installer, fetches, config, pkgs, outfile,
                   status>>

\* --------------------------------------------------------------- do_install
\* lines 85-88
do_install_dir ==
    /\ pc = "do_install_dir"
    /\ installdir' = resolve_installdir(args)
    /\ pc' = "do_install_fromYaml"
    /\ UNCHANGED <<argv, environ0, environ, host_platform, frozen,
                   default_platform, args, ch_level, cbdep, ran, calls, stdout,
                   installer, fetches, config, pkgs, outfile, status>>

\* lines 90-92: Installer.fromYaml(self.configpath(args), self.cache, args.platform)
do_install_fromYaml ==
    /\ pc = "do_install_fromYaml"
    /\ \E ok \in BOOLEAN :
         /\ calls' = Append(calls, Call("Installer.fromYaml",
                                <<configpath(args, frozen), cbdep, args.platform>>, ok))
         /\ IF ok
            THEN /\ installer' = Installer_fromYaml(configpath(args, frozen),
                                                    cbdep, args.platform)
                 /\ pc' = "do_install_set_cache_only"
                 /\ UNCHANGED status
            ELSE /\ Raise
                 /\ UNCHANGED installer
    /\ UNCHANGED <<argv, environ0, environ, host_platform, frozen,
                   default_platform, args, ch_level, cbdep, ran, stdout,
                   installdir, fetches, config, pkgs, outfile>>

\* line 93: installer.set_cache_only(args.cache_only)
do_install_set_cache_only ==
    /\ pc = "do_install_set_cache_only"
    /\ installer' = [installer EXCEPT !.cache_only = args.cache_only]
    /\ pc' = "do_install_set_recache"
    /\ UNCHANGED <<argv, environ0, environ, host_platform, frozen,
                   default_platform, args, ch_level, cbdep, ran, calls, stdout,
                   installdir, fetches, config, pkgs, outfile, status>>

\* line 94 left out
do_install_skip_recache ==
    /\ pc = "do_install_set_recache"
    /\ pc' = "do_install_install"
    /\ UNCHANGED <<argv, environ0, environ, host_platform, frozen,
                   default_platform, args, ch_level, cbdep, ran, calls, stdout,
                   installdir, installer, fetches, config, pkgs, outfile,
                   status>>

\* line 94: installer.set_recache(args.recache)
do_install_set_recache ==
    /\ pc = "do_install_set_recache"
    /\ installer' = [installer EXCEPT !.recache = args.recache]
    /\ pc' = "do_install_install"
    /\ UNCHANGED <<argv, environ0, environ, host_platform, frozen,
                   default_platform, args, ch_level, cbdep, ran, calls, stdout,
                   installdir, fetches, config, pkgs, outfile, status>>

InstallArgs ==
    <<args.package, args.version, BoolStr(args.x32), args.base_url, installdir>>

\* lines 96-102: installer.install(...) is entered.  Inside the Installer:
\* the package is looked up in the catalog for the bound platform; a package
\* the catalog does not hold, or a platform it does not support, raises.
do_install_install ==
    /\ pc = "do_install_install"
    /\ \E supported \in BOOLEAN :
         IF args.package = "known" /\ supported
         THEN /\ pc' = "installer_fetch"
              /\ UNCHANGED <<calls, status>>
         ELSE /\ calls' = Append(calls, Call("Installer.install", InstallArgs, FALSE))
              /\ Raise
    /\ UNCHANGED <<argv, environ0, environ, host_platform, frozen,
                   default_platform, args, ch_level, cbdep, ran, stdout,
                   installdir, installer, fetches, config, pkgs, outfile>>

\* Inside Installer.install: one cache-backed fetch; the artifact becomes the
\* installer file; further fetches may follow.
installer_fetch ==
    /\ pc = "installer_fetch"
    /\ Len(fetches) < MaxFetch
    /\ \E art \in Artifacts, ok \in BOOLEAN, more \in BOOLEAN :
         /\ fetches' = Append(fetches, Fetch(installer, art, ok))
         /\ IF ok
            THEN /\ installer' = [installer EXCEPT !.installer_file = art]
                 /\ pc' = IF more /\ Len(fetches) + 1 < MaxFetch
                          THEN "installer_fetch" ELSE "installer_unpack"
                 /\ UNCHANGED <<calls, status>>
            ELSE /\ calls' = Append(calls, Call("Installer.install", InstallArgs, FALSE))
                 /\ Raise
                 /\ UNCHANGED installer
    /\ UNCHANGED <<argv, environ0, environ, host_platform, frozen,
                   default_platform, args, ch_level, cbdep, ran, stdout,
                   installdir, config, pkgs, outfile>>

\* Inside Installer.install: the unpack/setup steps, skipped in cache-only
\* mode; then install returns to line 104.
installer_unpack ==
    /\ pc = "installer_unpack"
    /\ \E ok \in BOOLEAN :
         /\ calls' = Append(calls, Call("Installer.install", InstallArgs,
                                        ok \/ installer.cache_only))
         /\ IF ok \/ installer.cache_only
            THEN /\ installer' = [installer EXCEPT
                                    !.unpacked = ~installer.cache_only]
                 /\ pc' = "do_install_copy"
                 /\ UNCHANGED status
            ELSE /\ Raise
                 /\ UNCHANGED installer
    /\ UNCHANGED <<argv, environ0, environ, host_platform, frozen,
                   default_platform, args, ch_level, cbdep, ran, stdout,
                   installdir, fetches, config, pkgs, outfile>>

\* lines 104-106 with the copy tied to a real install
do_install_copy_unless_cache_only ==
    /\ pc = "do_install_copy"
    /\ IF args.output # None /\ ~args.cache_only
       THEN /\ calls' = Append(calls, Call("shutil.copy2",
                                   <<installer.installer_file, args.output>>, TRUE))
            /\ outfile' = installer.installer_file
       ELSE UNCHANGED <<calls, outfile>>
    /\ pc' = "return"
    /\ UNCHANGED <<argv, environ0, environ, host_platform, frozen,
                   default_platform, args, ch_level, cbdep, ran, stdout,
                   installdir, installer, fetches, config, pkgs, status>>

\* lines 104-106: if args.output is not None:
\*     shutil.copy2(installer.get_installer_file(), args.output)
do_install_copy ==
    /\ pc = "do_install_copy"
    /\ IF args.output # None
       THEN \E ok \in BOOLEAN :
              /\ calls' = Append(calls, Call("shutil.copy2",
                                     <<installer.installer_file, args.output>>, ok))
              /\ IF ok
                 THEN /\ outfile' = installer.installer_file
                      /\ pc' = "return"
                      /\ UNCHANGED status
                 ELSE /\ Raise
                      /\ UNCHANGED outfile
       ELSE /\ pc' = "return"
            /\ UNCHANGED <<calls, outfile, status>>
    /\ UNCHANGED <<argv, environ0, environ, host_platform, frozen,
                   default_platform, args, ch_level, cbdep, ran, stdout,
                   installdir, installer, fetches, config, pkgs>>

Next ==
    \/ main_pop_env
    \/ main_build_parser
    \/ main_parse_args
    \/ main_set_debug
    \/ main_check_func
    \/ main_new_cbdep
    \/ main_dispatch
    \/ main_return
    \/ do_cache_get
    \/ do_cache_report
    \/ do_cache_save
    \/ do_platform
    \/ do_list_load
    \/ do_list_print
    \/ do_install_dir
    \/ do_install_fromYaml
    \/ do_install_set_cache_only
    \/ do_install_set_recache
    \/ do_install_install
    \/ installer_fetch
    \/ installer_unpack
    \/ do_install_copy

Spec == Init /\ [][Next]_vars

\* =================================================================== claims
OpNames(s) == [i \in 1..Len(s) |-> s[i].op]

CallsOf(S) == OpNames(SelectSeq(calls, LAMBDA c : c.op \in S))

IsPrefix(s, t) == Len(s) <= Len(t) /\ \A i \in 1..Len(s) : s[i] = t[i]

AllCallsOk == \A i \in 1..Len(calls) : calls[i].ok

InstallReturned ==
    \E i \in 1..Len(calls) : calls[i].op = "Installer.install" /\ calls[i].ok

\* the ascending duplicate-free list of the elements of a set of names
RECURSIVE SortedSeqOfSet(_)
SortedSeqOfSet(S) ==
    IF S = {} THEN <<>>
    ELSE LET m == CHOOSE x \in S : \A y \in S : ~StrLess(y, x)
         IN  <<m>> \o SortedSeqOfSet(S \ {m})

\* C1: in an install command, once Installer.install has returned
\* successfully, the installer's last-fetched artifact is copied to the
\* output path exactly when an output path was given, with cache-only set or
\* not; a run that then ends with status 0 leaves that artifact at the output
\* path, and without an output path no copy is made.
C1_OutputCopied ==
    (argv.cmd = "install" /\ InstallReturned /\ pc \in {"return", "exit"}) =>
        /\ CallsOf({"shutil.copy2"}) =
              (IF argv.output # None THEN <<"shutil.copy2">> ELSE <<>>)
        /\ \A i \in 1..Len(calls) :
              calls[i].op = "shutil.copy2" =>
                 calls[i].a = <<fetches[Len(fetches)].file, argv.output>>
        /\ (pc = "exit" /\ status = 0 /\ argv.output # None) =>
              outfile = fetches[Len(fetches)].file
        /\ argv.output = None => outfile = None

C1_Witness ==
    /\ pc = "exit" /\ status = 0
    /\ ran = <<"install">> /\ argv.cache_only /\ argv.output # None
    /\ Len(fetches) = 2 /\ fetches[1].file # fetches[2].file
    /\ ~installer.unpacked
    /\ outfile = fetches[2].file

\* C2: every fetch the Installer makes is made while it holds the request's
\* cache-only and recache flags, and Installer.install is only entered with
\* both flags set from the request.
C2_FlagsBeforeFetch ==
    /\ \A i \in 1..Len(fetches) :
          /\ fetches[i].cache_only = argv.cache_only
          /\ fetches[i].recache = argv.recache
    /\ pc \in {"do_install_install", "installer_fetch", "installer_unpack"} =>
          /\ installer.cache_only = argv.cache_only
          /\ installer.recache = argv.recache

C2_Witness ==
    /\ Len(fetches) = 2 /\ fetches[2].ok
    /\ argv.recache /\ argv.cache_only

CacheOps == {"Cache.get", "Cache.report", "Cache.save"}

ExpectedCacheCalls ==
    <<"Cache.get">>
    \o (IF argv.report THEN <<"Cache.report">> ELSE <<>>)
    \o (IF argv.output # None THEN <<"Cache.save">> ELSE <<>>)

\* C3: in a run of the cache command the calls made to the Cache are Cache.get once and
\* first, then Cache.report exactly when report is set, then Cache.save
\* exactly when an output path is set: at every moment the calls made so far
\* are a prefix of that list, and a run that ends with status 0 has made all
\* of them; Cache.get receives the url and the recache flag.
C3_CacheSequence ==
    argv.cmd = "cache" =>
        /\ IsPrefix(CallsOf(CacheOps), ExpectedCacheCalls)
        /\ (ran = <<"cache">> /\ (pc = "return" \/ (pc = "exit" /\ status = 0))) =>
              CallsOf(CacheOps) = ExpectedCacheCalls
        /\ \A i \in 1..Len(calls) :
              calls[i].op = "Cache.get" =>
                 calls[i].a = <<argv.url, BoolStr(argv.recache)>>

C3_Witness ==
    /\ ran = <<"cache">> /\ argv.report /\ argv.output # None
    /\ pc = "exit" /\ status = 0
    /\ CallsOf(CacheOps) = <<"Cache.get", "Cache.report", "Cache.save">>

\* C4: a failed collaborator call is the last call of the run: no later step
\* follows it, it is not made again, and the process has ended with a
\* non-zero status; a failed fetch inside the Installer likewise ends the
\* install without the output copy.
C4_FailureTerminates ==
    /\ \A i \in 1..(Len(calls) - 1) : calls[i].ok
    /\ \A i \in 1..(Len(fetches) - 1) : fetches[i].ok
    /\ ~AllCallsOk => (pc = "exit" /\ status # 0)
    /\ (\E i \in 1..Len(fetches) : ~fetches[i].ok) =>
          (~AllCallsOk /\ CallsOf({"shutil.copy2"}) = <<>> /\ outfile = None)
    /\ (pc = "exit" /\ status = 0) => AllCallsOk

C4_Witness ==
    /\ argv.cmd = "cache" /\ argv.report /\ argv.output # None
    /\ Len(calls) > 0
    /\ calls[Len(calls)].op = "Cache.get" /\ ~calls[Len(calls)].ok
    /\ pc = "exit" /\ status = 1
    /\ stdout = <<>> /\ outfile = None

\* C5: the platform bound into the Installer is the --platform override when
\* one is given and the value introspection returns when none is.
C5_EffectivePlatform ==
    /\ installer # NoInstaller =>
          installer.platform =
             (IF argv.platform # None THEN argv.platform ELSE host_platform)
    /\ \A i \in 1..Len(calls) :
          calls[i].op = "Installer.fromYaml" =>
             calls[i].a[3] =
                (IF argv.platform # None THEN argv.platform ELSE host_platform)

C5_Witness ==
    /\ installer # NoInstaller
    /\ argv.platform # None /\ argv.platform # host_platform
    /\ installer.platform = argv.platform

\* C6: from the first step of main() on, LD_LIBRARY_PATH is absent from the
\* environment; every consultation of get_platforms sees it absent.
C6_NoLdLibraryPath ==
    /\ pc # "main" => "LD_LIBRARY_PATH" \notin environ
    /\ \A i \in 1..Len(calls) :
          calls[i].op = "get_platforms" => calls[i].a = <<"False">>

C6_Witness ==
    /\ "LD_LIBRARY_PATH" \in environ0
    /\ argv.cmd = "install" /\ pc = "installer_fetch"
    /\ CallsOf({"get_platforms"}) = <<"get_platforms">>

HandlerOf(p) ==
    CASE p \in {"do_cache_get", "do_cache_report", "do_cache_save"} -> "cache"
      [] p \in {"do_install_dir", "do_install_fromYaml",
                "do_install_set_cache_only", "do_install_set_recache",
                "do_install_install", "installer_fetch", "installer_unpack",
                "do_install_copy"} -> "install"
      [] p = "do_platform" -> "platform"
      [] p \in {"do_list_load", "do_list_print"} -> "list"
      [] OTHER -> None

\* C7 as stated: without a subcommand the process prints the help text and
\* exits with status 1, the Cache is never constructed and no handler runs;
\* with a subcommand only that subcommand's handler runs, once, and a run in
\* which nothing fails ends with status 0.
C7_AsStated ==
    /\ argv.cmd = None =>
          /\ ran = <<>> /\ cbdep = None /\ CallsOf({"Cache"}) = <<>>
          /\ (pc = "exit" /\ AllCallsOk) => (status = 1 /\ stdout = <<"usage">>)
    /\ argv.cmd # None =>
          /\ ran \in {<<>>, <<argv.cmd>>}
          /\ (pc = "exit" /\ AllCallsOk) => (status = 0 /\ ran = <<argv.cmd>>)

\* parse_args reaches a -h/--help before it rejects the command line: the
\* -h stands before the subcommand or after a subcommand that exists, and
\* nothing is rejected ahead of the help action.
HelpReachedFirst ==
    /\ argv.help # "no" /\ ~argv.early
    /\ argv.help = "global" \/ argv.cmd \in Commands

\* parse_args rejects the command line without reaching a -h/--help.
RejectedFirst ==
    /\ ~HelpReachedFirst
    /\ \/ argv.early
       \/ argv.cmd \notin Commands \cup {None}
       \/ argv.unrecognized
       \/ argv.cmd = "cache" /\ argv.url = None
       \/ argv.cmd = "install" /\ (argv.package = None \/ argv.version = None)

\* C7 amended: a command line parse_args accepts and that names no subcommand
\* prints the help text and exits with status 1.  When parse_args reaches a
\* -h/--help before rejecting the command line the help text is printed and
\* the status is 0; when it rejects the command line the status is 2 and
\* nothing is printed on stdout.  In these three cases the Cache is never
\* constructed and no handler runs; no command line holding -h/--help runs a
\* handler, and such a run ends with status 0 or 2.  A run that ends with
\* status 0 without having entered a handler has printed exactly a help
\* text; a run that ends with status 2 has printed nothing and entered no
\* handler.  An accepted command line that names a subcommand runs that
\* subcommand's handler only, once, and a run in which nothing fails ends
\* with status 0.
C7_SingleHandler ==
    /\ (argv.cmd = None \/ HelpReachedFirst \/ RejectedFirst \/ argv.help # "no") =>
          /\ ran = <<>> /\ cbdep = None /\ CallsOf({"Cache"}) = <<>>
          /\ HandlerOf(pc) = None /\ pc # "return"
    /\ (pc = "exit" /\ AllCallsOk /\ HelpReachedFirst) =>
          /\ status = 0
          /\ stdout = <<HelpText(IF argv.help = "global" THEN None ELSE argv.cmd)>>
    /\ (pc = "exit" /\ AllCallsOk /\ RejectedFirst) =>
          (status = 2 /\ stdout = <<>>)
    /\ (pc = "exit" /\ AllCallsOk /\ argv.help # "no") => status \in {0, 2}
    /\ (pc = "exit" /\ status = 0 /\ ran = <<>>) =>
          (argv.help # "no" /\ Len(stdout) = 1)
    /\ (pc = "exit" /\ status = 2) =>
          (stdout = <<>> /\ ran = <<>> /\ cbdep = None /\ AllCallsOk)
    /\ (pc = "exit" /\ AllCallsOk /\ argv.cmd = None
           /\ ~HelpReachedFirst /\ ~RejectedFirst) =>
          (status = 1 /\ stdout = <<"usage">>)
    /\ (argv.cmd # None /\ ~HelpReachedFirst /\ ~RejectedFirst) =>
          /\ ran \in {<<>>, <<argv.cmd>>}
          /\ HandlerOf(pc) \in {None, argv.cmd}
          /\ (HandlerOf(pc) # None \/ pc = "return") => ran = <<argv.cmd>>
          /\ (pc = "exit" /\ AllCallsOk) => (status = 0 /\ ran = <<argv.cmd>>)

C7_Witness ==
    /\ argv.cmd = None /\ argv.help = "no" /\ ~argv.unrecognized /\ ~argv.early
    /\ pc = "exit" /\ status = 1
    /\ stdout = <<"usage">> /\ cbdep = None /\ ran = <<>>

ListPrinted == ran = <<"list">> /\ (pc = "return" \/ (pc = "exit" /\ status = 0))

\* C8: the list command prints a header line, then the sorted union of the
\* keys of the packages mapping and the entries of classic-cbdeps.packages,
\* each name once, then a blank line.
C8_SortedUnion ==
    ListPrinted =>
        LET u == SortedSeqOfSet(Range(config.packages) \cup Range(config.classic))
        IN  stdout = <<Header>> \o [i \in 1..Len(u) |-> "  " \o NameStr(u[i])]
                     \o <<"">>

\* C9: an install command with the report flag set, once the install has
\* completed, reports the cache filename of the last-downloaded artifact.
C9_InstallReports ==
    (ran = <<"install">> /\ InstallReturned /\ argv.report
       /\ pc = "exit" /\ status = 0) =>
        \/ CallsOf({"Cache.report"}) # <<>>
        \/ stdout # <<>>

\* C10 as stated: get_platforms is consulted exactly once without an
\* override, never with one, and never more than once.
C10_OnceUnlessOverridden ==
    /\ Len(CallsOf({"get_platforms"})) <= 1
    /\ argv.platform # None => CallsOf({"get_platforms"}) = <<>>

\* C10 amended: get_platforms is consulted once while the argument parser is
\* built, with or without an override; only the platform command consults it
\* again, in its handler; no run consults it more than twice.
C10_ResolverPerRun ==
    /\ pc \notin {"main", "build_parser"} => Len(CallsOf({"get_platforms"})) >= 1
    /\ Len(CallsOf({"get_platforms"})) <= 2
    /\ Len(CallsOf({"get_platforms"})) = 2 => argv.cmd = "platform"
    /\ (pc = "exit" /\ status = 0) =>
          Len(CallsOf({"get_platforms"})) = (IF ran = <<"platform">> THEN 2 ELSE 1)

C10_Witness ==
    /\ argv.platform # None /\ ran = <<"platform">>
    /\ pc = "exit" /\ status = 0
    /\ CallsOf({"get_platforms"}) = <<"get_platforms", "get_platforms">>
====
